---- MODULE Spec2Model ----
(***************************************************************************)
(* A model of leptoaster's toaster: the reactive state container           *)
(* ToasterContext (src/src/toaster/context.rs) and the Toaster view with   *)
(* provide_toaster / expect_toaster (src/src/toaster.rs).                  *)
(*                                                                         *)
(* The crate's toast module (ToastBuilder, ToastData, the Toast component) *)
(* is not among the sources; what the model needs of it is taken from the  *)
(* specification and kept in the definitions marked "toast module".  The   *)
(* same holds for the four per-corner queues the Toaster view reads:       *)
(* context.rs declares the single field `queue` only.                      *)
(*                                                                         *)
(* The host framework runs everything on one UI event loop, and a signal's *)
(* subscribers run synchronously inside `set`; every action below is one   *)
(* whole call, the re-render of the mounted view included.                 *)
(***************************************************************************)
EXTENDS Integers, Sequences, FiniteSets

VARIABLES
    provided,   \* a ToasterContext is installed as context (provide_context)
    stats,      \* ToasterStats {visible, total} of the installed context
    queue,      \* the context's queue signal: a sequence of ToastData
    defaults,   \* the context's defaults: None or a ToastBuilder
    mounted,    \* the Toaster component is mounted
    view,       \* what the mounted Toaster shows, per corner container
    panicked,   \* a call panicked (expect_context found no context)
    issued,     \* history: the ids built by toast(), in call order
    last        \* history: the last call, its argument and the state before it

vars == <<provided, stats, queue, defaults, mounted, view, panicked, issued, last>>

----------------------------------------------------------------------------
(* Bounds and input sets *)

\* toast() is not called once this many toasts were created on the context.
MaxToasts == 3

\* The same limit in the behaviours checked for liveness.
MaxLiveToasts == 2

\* Option values: None, or Some(x).
None == <<>>

Some(x) == <<x>>

Corners == {"top_left", "top_right", "bottom_right", "bottom_left"}

Messages == {"m1"}

\* The ids remove() is called with: every id toast() can issue, and one more
\* that is never issued.
RemoveIds == 1..(MaxToasts + 1)

----------------------------------------------------------------------------
(* toast module: ToastBuilder and ToastData *)

\* ToastBuilder::new(message): the message with the builder's own defaults.
ToastBuilder_new(message) ==
    [message |-> message, level |-> "Info",
     expiry |-> Some("default"),
     position |-> "bottom_left"]

with_message(builder, message) == [builder EXCEPT !.message = message]

with_level(builder, level) == [builder EXCEPT !.level = level]

with_expiry(builder, expiry) == [builder EXCEPT !.expiry = expiry]

with_position(builder, position) == [builder EXCEPT !.position = position]

\* ToastBuilder::build(id): the ToastData of the builder's settings, its
\* clear signal not yet set.
build(builder, id) ==
    [id |-> id, message |-> builder.message, level |-> builder.level,
     expiry |-> builder.expiry, position |-> builder.position,
     clear_signal |-> FALSE]

\* The builders callers hand to toast().
Builders ==
    {with_position(ToastBuilder_new("m2"), "top_left"),
     with_position(with_expiry(ToastBuilder_new("m3"), None), "bottom_right")}

\* The defaults a context is constructed with by new_with_defaults.
DefaultBuilders ==
    {with_position(with_level(with_expiry(ToastBuilder_new("d"), None),
                              "Warn"), "top_right")}

----------------------------------------------------------------------------
(* ToasterContext *)

ToasterStats_default == [visible |-> 0, total |-> 0]

\* .iter().enumerate().find(|(_, toast)| toast.id == toast_id).map(index):
\* the first index holding the id, 0 for None.
find_index(q, toast_id) ==
    IF \E i \in DOMAIN q : q[i].id = toast_id
    THEN CHOOSE i \in DOMAIN q :
             /\ q[i].id = toast_id
             /\ \A j \in 1..(i - 1) : q[j].id # toast_id
    ELSE 0

\* A variant of vec_remove: Vec::swap_remove, the last entry moved into the gap.
vec_swap_remove(q, index) ==
    [i \in 1..(Len(q) - 1) |-> IF i = index THEN q[Len(q)] ELSE q[i]]

\* Vec::remove(index)
vec_remove(q, index) ==
    SubSeq(q, 1, index - 1) \o SubSeq(q, index + 1, Len(q))

\* A variant of next_id: the id taken from the visible counter.
next_id_from_visible(st) == st.visible + 1

\* A variant of next_id: the `+ 1` forgotten.
next_id_total(st) == st.total

\* toast(): the id handed to build, `total + 1`.
next_id(st) == st.total + 1

\* A variant of toast_queue: the toast inserted at the front.
toast_queue_front(q, st, builder) == <<build(builder, st.total + 1)>> \o q

\* A variant of toast_queue: the toast pushed onto a new Vec.
toast_queue_replace(q, st, builder) == <<build(builder, st.total + 1)>>

\* A variant of toast_queue: the queue rebuilt with fresh clear signals.
toast_queue_fresh_signals(q, st, builder) ==
    Append([i \in DOMAIN q |-> [q[i] EXCEPT !.clear_signal = FALSE]],
           build(builder, st.total + 1))

\* toast(): the queue after get_untracked / push / set.
toast_queue(q, st, builder) == Append(q, build(builder, next_id(st)))

\* A variant of toast_stats: `visible += 1` left out.
toast_stats_total_only(st) == [st EXCEPT !.total = st.total + 1]

\* A variant of toast_stats: `visible += 2`.
toast_stats_twice(st) == [visible |-> st.visible + 2, total |-> st.total + 1]

\* toast(): the stats after `visible += 1; total += 1`.
toast_stats(st) == [visible |-> st.visible + 1, total |-> st.total + 1]

\* A variant of clear_queue: the queue emptied.
clear_queue_drain(q) == SubSeq(q, 1, 0)

\* A variant of clear_queue: the flags set on a copy, the shared ones untouched.
clear_queue_on_copy(q) == q

\* clear(): every toast's clear_signal set to true; the signals are shared
\* with the queue's entries, the queue signal itself is not written.
clear_queue(q) == [i \in DOMAIN q |-> [q[i] EXCEPT !.clear_signal = TRUE]]

\* remove(): the queue after the scan and, on a match, Vec::remove.
remove_queue(q, toast_id) ==
    IF find_index(q, toast_id) # 0
    THEN vec_remove(q, find_index(q, toast_id))
    ELSE q

\* A variant of remove_stats: the decrement outside the `if let`.
remove_stats_always(q, st, toast_id) == [st EXCEPT !.visible = st.visible - 1]

\* remove(): the stats; `visible -= 1` on a match only.
remove_stats(q, st, toast_id) ==
    IF find_index(q, toast_id) # 0
    THEN [st EXCEPT !.visible = st.visible - 1]
    ELSE st

\* A variant of sugar_builder: the defaults ignored.
sugar_builder_no_defaults(dflt, message, level) ==
    with_level(ToastBuilder_new(message), level)

\* remove(): whether `visible -= 1` panics. It can only where it underflows
\* the u32 (a match with visible = 0), and does so in a build with overflow
\* checks; without them the counter wraps, which remove_stats' -1 stands
\* for (the next `visible += 1` wraps it back to 0).
overflow_panics(q, st, toast_id) ==
    IF find_index(q, toast_id) # 0 /\ st.visible = 0
    THEN {TRUE, FALSE}
    ELSE {FALSE}

\* info/success/warn/error: the builder handed to toast().
sugar_builder(dflt, message, level) ==
    with_level(IF dflt # None THEN with_message(dflt[1], message)
                               ELSE ToastBuilder_new(message),
               level)

----------------------------------------------------------------------------
(* Toaster view *)

\* The per-corner queue the view reads (toaster.top_left_queue, ...): the
\* queue's toasts configured for that corner, in queue order.
corner_queue(q, corner) == SelectSeq(q, LAMBDA t : t.position = corner)

top_left_queue(q) == corner_queue(q, "top_left")

top_right_queue(q) == corner_queue(q, "top_right")

bottom_right_queue(q) == corner_queue(q, "bottom_right")

bottom_left_queue(q) == corner_queue(q, "bottom_left")

\* <For each=... key=|toast| toast.id>: one Toast element per entry, by id.
For_keys(each) == [i \in DOMAIN each |-> each[i].id]

\* A variant of Show_container: the container not wrapped in <Show>.
Show_container_always(whenQueue, eachQueue) ==
    [shown |-> TRUE, keys |-> For_keys(eachQueue)]

\* <Show when=move || !....get().is_empty()> around a container holding a
\* <For>: the container exists only while `when` is true.
Show_container(whenQueue, eachQueue) ==
    [shown |-> Len(whenQueue) # 0,
     keys |-> IF Len(whenQueue) # 0 THEN For_keys(eachQueue) ELSE <<>>]

\* A variant of Toaster_view: the bottom-right <For> left iterating the
\* top-left queue.
Toaster_view_copied_each(q) ==
    [c \in Corners |->
        CASE c = "top_left" ->
                 Show_container(top_left_queue(q), top_left_queue(q))
          [] c = "top_right" ->
                 Show_container(top_right_queue(q), top_right_queue(q))
          [] c = "bottom_right" ->
                 Show_container(bottom_right_queue(q), top_left_queue(q))
          [] c = "bottom_left" ->
                 Show_container(bottom_left_queue(q), bottom_left_queue(q))]

\* The four containers of the Toaster component's view.
Toaster_view(q) ==
    [c \in Corners |->
        CASE c = "top_left" ->
                 Show_container(top_left_queue(q), top_left_queue(q))
          [] c = "top_right" ->
                 Show_container(top_right_queue(q), top_right_queue(q))
          [] c = "bottom_right" ->
                 Show_container(bottom_right_queue(q), bottom_right_queue(q))
          [] c = "bottom_left" ->
                 Show_container(bottom_left_queue(q), bottom_left_queue(q))]

NoView == [c \in Corners |-> [shown |-> FALSE, keys |-> <<>>]]

\* The view after a call that left the queue as q: the mounted component
\* re-renders inside the signal's set, an unmounted one shows nothing.
rerender(q) == IF mounted THEN Toaster_view(q) ELSE view

\* The ids the mounted view holds a Toast element for.
RenderedIds ==
    UNION {{view[c].keys[i] : i \in DOMAIN view[c].keys} : c \in Corners}

----------------------------------------------------------------------------
(* History *)

\* The context a clone of the installed ToasterContext shares.
Context == [stats |-> stats, queue |-> queue, defaults |-> defaults]

Call(op, arg, result) ==
    [op |-> op, arg |-> arg, result |-> result,
     provided |-> provided, stats |-> stats, queue |-> queue,
     defaults |-> defaults]

----------------------------------------------------------------------------
(* Initial state: nothing provided, nothing mounted *)

Init ==
    /\ provided = FALSE
    /\ stats = ToasterStats_default
    /\ queue = <<>>
    /\ defaults = None
    /\ mounted = FALSE
    /\ view = NoView
    /\ panicked = FALSE
    /\ issued = <<>>
    /\ last = Call("init", None, None)

----------------------------------------------------------------------------
(* provide_toaster / expect_toaster *)

\* A variant of provide_toaster: the context provided unconditionally.
provide_toaster_always ==
    /\ ~panicked
    /\ provided' = TRUE
    /\ stats' = ToasterStats_default
    /\ queue' = <<>>
    /\ defaults' = None
    /\ view' = rerender(queue')
    /\ last' = Call("provide_toaster", None, None)
    /\ UNCHANGED <<mounted, panicked, issued>>

\* provide_toaster(): installs ToasterContext::default() unless a context
\* is already there.
provide_toaster ==
    /\ ~panicked
    /\ IF ~provided
       THEN /\ provided' = TRUE
            /\ stats' = ToasterStats_default
            /\ queue' = <<>>
            /\ defaults' = None
       ELSE UNCHANGED <<provided, stats, queue, defaults>>
    /\ view' = rerender(queue')
    /\ last' = Call("provide_toaster", None, None)
    /\ UNCHANGED <<mounted, panicked, issued>>

\* A context constructed by new_with_defaults(defaults) and installed where
\* none was.
new_with_defaults(dflt) ==
    /\ ~panicked
    /\ ~provided
    /\ provided' = TRUE
    /\ stats' = ToasterStats_default
    /\ queue' = <<>>
    /\ defaults' = Some(dflt)
    /\ last' = Call("new_with_defaults", dflt, None)
    /\ UNCHANGED <<mounted, view, panicked, issued>>

\* A variant of expect_context: a default context in place of the panic.
expect_context_or_default ==
    [panic |-> FALSE,
     context |-> Some(IF provided THEN Context
                      ELSE [stats |-> ToasterStats_default, queue |-> <<>>,
                            defaults |-> None])]

\* expect_context::<ToasterContext>(): the installed context, or a panic.
expect_context ==
    IF provided THEN [panic |-> FALSE, context |-> Some(Context)]
                ELSE [panic |-> TRUE, context |-> None]

\* expect_toaster()
expect_toaster ==
    /\ ~panicked
    /\ panicked' = expect_context.panic
    /\ last' = Call("expect_toaster", None, expect_context)
    /\ UNCHANGED <<provided, stats, queue, defaults, mounted, view, issued>>

\* Mounting the Toaster component: expect_toaster(), then the view.
Toaster ==
    /\ ~panicked
    /\ ~mounted
    /\ panicked' = expect_context.panic
    /\ mounted' = ~expect_context.panic
    /\ view' = IF expect_context.panic THEN view ELSE Toaster_view(queue)
    /\ last' = Call("Toaster", None, expect_context)
    /\ UNCHANGED <<provided, stats, queue, defaults, issued>>

----------------------------------------------------------------------------
(* ToasterContext's methods, called on the installed context *)

\* The whole of toast(builder), entered as `op`.
toast_call(op, arg, builder) ==
    /\ ~panicked
    /\ provided
    /\ stats.total < MaxToasts
    /\ queue' = toast_queue(queue, stats, builder)
    /\ stats' = toast_stats(stats)
    /\ view' = rerender(queue')
    /\ issued' = Append(issued, build(builder, next_id(stats)).id)
    /\ last' = Call(op, arg, None)
    /\ UNCHANGED <<provided, defaults, mounted, panicked>>

toast(builder) == toast_call("toast", builder, builder)

info(message) ==
    toast_call("info", message, sugar_builder(defaults, message, "Info"))

success(message) ==
    toast_call("success", message, sugar_builder(defaults, message, "Success"))

warn(message) ==
    toast_call("warn", message, sugar_builder(defaults, message, "Warn"))

error(message) ==
    toast_call("error", message, sugar_builder(defaults, message, "Error"))

clear ==
    /\ ~panicked
    /\ provided
    /\ queue' = clear_queue(queue)
    /\ view' = rerender(queue')
    /\ last' = Call("clear", None, None)
    /\ UNCHANGED <<provided, stats, defaults, mounted, panicked, issued>>

\* The whole of remove(toast_id), called by `caller`.
remove_call(caller, toast_id) ==
    /\ ~panicked
    /\ provided
    /\ queue' = remove_queue(queue, toast_id)
    /\ \E panics \in overflow_panics(queue, stats, toast_id) :
           /\ panicked' = panics
           /\ stats' = IF panics THEN stats
                                 ELSE remove_stats(queue, stats, toast_id)
    /\ view' = rerender(queue')
    /\ last' = Call("remove", toast_id, caller)
    /\ UNCHANGED <<provided, defaults, mounted, issued>>

remove(toast_id) == remove_call("caller", toast_id)

----------------------------------------------------------------------------
(* toast module: the Toast component of a rendered toast *)

InQueue(toast_id) == \E i \in DOMAIN queue : queue[i].id = toast_id

Cleared(toast_id) ==
    \E i \in DOMAIN queue : queue[i].id = toast_id /\ queue[i].clear_signal

\* The expiry timer of a rendered toast fires: its clear signal is set.
Toast_expire(toast_id) ==
    /\ ~panicked
    /\ toast_id \in RenderedIds
    /\ \E i \in DOMAIN queue :
           /\ queue[i].id = toast_id
           /\ queue[i].expiry # None
           /\ ~queue[i].clear_signal
           /\ queue' = [queue EXCEPT ![i].clear_signal = TRUE]
    /\ view' = rerender(queue')
    /\ last' = Call("expire", toast_id, None)
    /\ UNCHANGED <<provided, stats, defaults, mounted, panicked, issued>>

\* A rendered toast whose clear signal is set has finished dismissing: it
\* calls back the context's remove with its id.
Toast_dismissed(toast_id) ==
    /\ toast_id \in RenderedIds
    /\ Cleared(toast_id)
    /\ remove_call("Toast", toast_id)

----------------------------------------------------------------------------

Next ==
    \/ provide_toaster
    \/ \E dflt \in DefaultBuilders : new_with_defaults(dflt)
    \/ expect_toaster
    \/ Toaster
    \/ \E builder \in Builders : toast(builder)
    \/ \E message \in Messages : info(message)
    \/ \E message \in Messages : success(message)
    \/ \E message \in Messages : warn(message)
    \/ \E message \in Messages : error(message)
    \/ clear
    \/ \E toast_id \in RemoveIds : remove(toast_id)
    \/ \E toast_id \in RemoveIds : Toast_expire(toast_id)
    \/ \E toast_id \in RemoveIds : Toast_dismissed(toast_id)

Spec == Init /\ [][Next]_vars

\* The same calls, on a context that creates at most MaxLiveToasts toasts.
LiveCap == stats.total < MaxLiveToasts

LiveNext ==
    \/ provide_toaster
    \/ \E dflt \in DefaultBuilders : new_with_defaults(dflt)
    \/ expect_toaster
    \/ Toaster
    \/ \E builder \in Builders : LiveCap /\ toast(builder)
    \/ \E message \in Messages : LiveCap /\ info(message)
    \/ \E message \in Messages : LiveCap /\ success(message)
    \/ \E message \in Messages : LiveCap /\ warn(message)
    \/ \E message \in Messages : LiveCap /\ error(message)
    \/ clear
    \/ \E toast_id \in RemoveIds : remove(toast_id)
    \/ \E toast_id \in RemoveIds : Toast_expire(toast_id)
    \/ \E toast_id \in RemoveIds : Toast_dismissed(toast_id)

\* What a subscriber of the queue signal calls on the context when it is
\* notified inside toast()'s `self.queue.set(queue)`.
Reactions ==
    {[call |-> "toast", builder |-> builder] : builder \in Builders}
        \cup {[call |-> "remove", toast_id |-> toast_id] :
                  toast_id \in RemoveIds}

\* The queue a reaction leaves, called on queue q with the stats st.
reaction_queue(q, st, reaction) ==
    IF reaction.call = "toast" THEN toast_queue(q, st, reaction.builder)
                               ELSE remove_queue(q, reaction.toast_id)

\* The stats a reaction that returns leaves.
reaction_stats(q, st, reaction) ==
    IF reaction.call = "toast" THEN toast_stats(st)
                               ELSE remove_stats(q, st, reaction.toast_id)

\* Whether a reaction panics.
reaction_panics(q, st, reaction) ==
    IF reaction.call = "toast" THEN {FALSE}
                               ELSE overflow_panics(q, st, reaction.toast_id)

\* The ids a reaction builds.
reaction_issued(st, reaction) ==
    IF reaction.call = "toast" THEN <<build(reaction.builder, next_id(st)).id>>
                               ELSE <<>>

\* toast(builder) on a context whose queue signal has a subscriber: the
\* subscriber runs inside `self.queue.set(queue)`, after the queue is
\* written and before `visible += 1; total += 1`, and makes its call there
\* (it does not react to the set of its own call).  A panic in the nested
\* call unwinds through toast(), whose increments then never run.
toast_with_subscriber(builder, reaction) ==
    /\ ~panicked
    /\ provided
    /\ stats.total + 1 < MaxToasts
    /\ LET written == toast_queue(queue, stats, builder)
       IN  /\ queue' = reaction_queue(written, stats, reaction)
           /\ \E panics \in reaction_panics(written, stats, reaction) :
                  /\ panicked' = panics
                  /\ stats' =
                         IF panics THEN stats
                         ELSE toast_stats(reaction_stats(written, stats,
                                                         reaction))
    /\ view' = rerender(queue')
    /\ issued' = Append(issued, build(builder, next_id(stats)).id)
                     \o reaction_issued(stats, reaction)
    /\ last' = Call("toast_with_subscriber", reaction, None)
    /\ UNCHANGED <<provided, defaults, mounted>>

ReentrantNext ==
    \/ Next
    \/ \E builder \in Builders, reaction \in Reactions :
           toast_with_subscriber(builder, reaction)

\* The calls of Spec, and toast() with a subscriber that calls back.
ReentrantSpec == Init /\ [][ReentrantNext]_vars

\* The view's dismissal callbacks are scheduled fairly by the event loop.
LiveSpec ==
    /\ Init
    /\ [][LiveNext]_vars
    /\ \A toast_id \in RemoveIds : WF_vars(Toast_dismissed(toast_id))

----------------------------------------------------------------------------
(* Properties *)

AddOps == {"toast", "info", "success", "warn", "error"}

\* The queue's entries with the given id.
Holds(q, toast_id) == \E i \in DOMAIN q : q[i].id = toast_id

\* The queue without its entries of the given id, the rest in order.
Without(q, toast_id) == SelectSeq(q, LAMBDA t : t.id # toast_id)

\* The corner containers holding a Toast element keyed by the id.
CornersRendering(toast_id) ==
    {c \in Corners : \E k \in DOMAIN view[c].keys : view[c].keys[k] = toast_id}

\* C1: the ids built by successive toast() calls are strictly increasing,
\* whatever was cleared or removed in between; no id is issued twice.
C1_IdsStrictlyIncreasing ==
    \A i, j \in DOMAIN issued : i < j => issued[i] < issued[j]

\* C1 witness: a toast was just created after an earlier one had been
\* removed and another cleared.
C1_Witness ==
    /\ last.op \in AddOps
    /\ Len(issued) = 3
    /\ Len(last.queue) = 1
    /\ last.queue[1].clear_signal

\* C2: remove(id) of a queued id leaves the old queue without exactly that
\* entry: the others are all there, unchanged and in their order, and the
\* queue is one shorter.
C2_RemoveDeletesExactlyThatEntry ==
    (last.op = "remove" /\ Holds(last.queue, last.arg)) =>
        /\ queue = Without(last.queue, last.arg)
        /\ Len(queue) = Len(last.queue) - 1

\* C2 witness: the first of three queued toasts was just removed.
C2_Witness ==
    /\ last.op = "remove"
    /\ Len(last.queue) = 3
    /\ last.queue[1].id = last.arg
    /\ Len(queue) = 2

\* C3: remove(id) of an id the queue does not hold changes neither the
\* queue nor the visible and total counters, and does not panic.
C3_RemoveUnknownIsNoOp ==
    (last.op = "remove" /\ ~Holds(last.queue, last.arg)) =>
        /\ queue = last.queue
        /\ stats = last.stats
        /\ ~panicked

\* C3 witness: remove was just called with an id that was issued and
\* removed earlier, on a queue that holds other toasts.
C3_Witness ==
    /\ last.op = "remove"
    /\ last.arg <= last.stats.total
    /\ ~Holds(last.queue, last.arg)
    /\ Len(last.queue) = 2
    /\ queue = last.queue

\* C4: right after clear() every toast that was queued has its clear
\* signal set, and the queue holds the same entries in the same order.
C4_ClearSetsEveryFlag ==
    last.op = "clear" =>
        /\ Len(queue) = Len(last.queue)
        /\ \A i \in DOMAIN last.queue :
               /\ queue[i].clear_signal
               /\ queue[i] = [last.queue[i] EXCEPT !.clear_signal = TRUE]

\* C4 witness: clear() was just called on three toasts, one of them not
\* cleared before.
C4_Witness ==
    /\ last.op = "clear"
    /\ Len(last.queue) = 3
    /\ \E i \in DOMAIN last.queue : ~last.queue[i].clear_signal
    /\ \A i \in DOMAIN queue : queue[i].clear_signal

PresetLevel(op) ==
    CASE op = "info" -> "Info"
      [] op = "success" -> "Success"
      [] op = "warn" -> "Warn"
      [] op = "error" -> "Error"

\* C6: info/success/warn/error(message) appends exactly one toast, of the
\* method's severity and the caller's message; its other settings are those
\* of the context's defaults when it has them, of a new builder otherwise.
C6_SugarAppliesPresetLevel ==
    last.op \in {"info", "success", "warn", "error"} =>
        /\ Len(queue) = Len(last.queue) + 1
        /\ SubSeq(queue, 1, Len(last.queue)) = last.queue
        /\ queue[Len(queue)].level = PresetLevel(last.op)
        /\ queue[Len(queue)].message = last.arg
        /\ LET others == IF defaults # None THEN defaults[1]
                                            ELSE ToastBuilder_new(last.arg)
           IN  /\ queue[Len(queue)].expiry = others.expiry
               /\ queue[Len(queue)].position = others.position

\* C6 witness: error() was just called on a context whose defaults carry
\* another level, another message and no expiry.
C6_Witness ==
    /\ last.op = "error"
    /\ defaults # None
    /\ defaults[1].level # "Error"
    /\ defaults[1].message # last.arg
    /\ queue[Len(queue)].expiry = None

\* C7: expect_toaster() panics when no context was provided before it, and
\* returns the installed context when one was.
C7_ExpectToasterFailsFast ==
    last.op \in {"expect_toaster", "Toaster"} =>
        /\ last.result.panic = ~last.provided
        /\ panicked = ~last.provided
        /\ last.provided =>
               last.result.context =
                   Some([stats |-> last.stats, queue |-> last.queue,
                         defaults |-> defaults])

\* C7 witness: expect_toaster() was just called with nothing provided.
C7_Witness ==
    /\ last.op = "expect_toaster"
    /\ ~last.provided
    /\ panicked

C10_ToastAppendsNextId ==
    /\ last.op \in AddOps =>
           /\ Len(queue) = Len(last.queue) + 1
           /\ SubSeq(queue, 1, Len(last.queue)) = last.queue
           /\ queue[Len(queue)].id = last.stats.total + 1
           /\ stats.total = last.stats.total + 1
    /\ \A k \in DOMAIN issued : issued[k] = k

\* C10 witness: toast(builder) just appended the third toast to a queue of
\* two.
C10_Witness ==
    /\ last.op = "toast"
    /\ Len(last.queue) = 2
    /\ Len(queue) = 3
    /\ queue[3].id = 3

\* The ids of a queue's entries, front to back.
Ids(q) == [i \in DOMAIN q |-> q[i].id]

\* C11: the queue gets shorter only in a remove of a queued id, and then by
\* one; toast, info, success, warn, error and clear neither delete nor
\* reorder an entry that was queued.
C11_OnlyRemoveShrinks ==
    /\ Len(queue) < Len(last.queue) =>
           /\ last.op = "remove"
           /\ Holds(last.queue, last.arg)
           /\ Len(queue) = Len(last.queue) - 1
    /\ last.op \in AddOps \cup {"clear"} =>
           /\ Len(queue) >= Len(last.queue)
           /\ SubSeq(Ids(queue), 1, Len(last.queue)) = Ids(last.queue)

\* C11 witness: a toast was just added to a queue of two, which both kept
\* their places.
C11_Witness ==
    /\ last.op \in AddOps
    /\ Len(last.queue) = 2
    /\ Len(queue) = 3
    /\ queue[1].id = last.queue[1].id
    /\ queue[2].id = last.queue[2].id

Removed(toast_id) ==
    /\ \E k \in DOMAIN issued : issued[k] = toast_id
    /\ ~Holds(queue, toast_id)

\* The id is queued with its clear signal set.
Dismissing(toast_id) ==
    \E i \in DOMAIN queue : queue[i].id = toast_id /\ queue[i].clear_signal

\* C13: a toast only moves forward: a clear signal that is set stays set
\* while the toast is queued, and a removed id is never queued again.
C13_LifecycleForward ==
    [][\A toast_id \in RemoveIds :
           /\ Dismissing(toast_id) =>
                  (Dismissing(toast_id)' \/ ~Holds(queue, toast_id)')
           /\ Removed(toast_id) => Removed(toast_id)']_vars

\* C13 witness: a toast was just added while one toast is dismissing and
\* another one is removed.
C13_Witness ==
    /\ last.op \in AddOps
    /\ \E toast_id \in RemoveIds : Removed(toast_id)
    /\ \E toast_id \in RemoveIds : Dismissing(toast_id)
    /\ Len(queue) = 2

\* C14: the visible counter equals the queue's length, so remove never
\* decrements a counter that is zero.
C14_VisibleEqualsLength ==
    /\ stats.visible = Len(queue)
    /\ (last.op = "remove" /\ Holds(last.queue, last.arg)) =>
           /\ last.stats.visible >= 1
           /\ ~panicked

\* C14 witness: remove just took the only queued toast, the counter going
\* from one to zero.
C14_Witness ==
    /\ last.op = "remove"
    /\ Len(last.queue) = 1
    /\ last.stats.visible = 1
    /\ Len(queue) = 0
    /\ stats.visible = 0
    /\ stats.total = 2

\* C15: the queue's ids are pairwise distinct, strictly increasing from
\* front to back and between 1 and the total, so remove's scan matches at
\* most one entry.
C15_QueueIdsDistinctIncreasing ==
    /\ \A i, j \in DOMAIN queue : i < j => queue[i].id < queue[j].id
    /\ \A i \in DOMAIN queue : queue[i].id \in 1..stats.total
    /\ \A toast_id \in RemoveIds :
           Cardinality({i \in DOMAIN queue : queue[i].id = toast_id}) <= 1

\* C15 witness: the queue holds the first and the third toast, the second
\* one removed.
C15_Witness ==
    /\ Len(queue) = 2
    /\ queue[1].id = 1
    /\ queue[2].id = 3
    /\ stats.total = 3

\* C17: provide_toaster() on an installed context replaces nothing: the
\* queue, the counters and the defaults are as before, and the ids issued
\* so far stay below the next one.
C17_ProvideIsIdempotent ==
    (last.op = "provide_toaster" /\ last.provided) =>
        /\ provided
        /\ queue = last.queue
        /\ stats = last.stats
        /\ defaults = last.defaults
        /\ \A k \in DOMAIN issued : issued[k] < next_id(stats)

\* C17 witness: provide_toaster() was just called again on a context with
\* defaults that holds two toasts.
C17_Witness ==
    /\ last.op = "provide_toaster"
    /\ last.provided
    /\ Len(queue) = 2
    /\ defaults # None
    /\ stats.total = 2

\* C16: with a subscriber calling toast() or remove() from inside
\* toast()'s queue update, no two queued toasts share an id, and once the
\* calls have returned the visible counter equals the queue's length.
C16_UniqueUnderReentrancy ==
    /\ \A i, j \in DOMAIN queue : i # j => queue[i].id # queue[j].id
    /\ ~panicked => stats.visible = Len(queue)

====
